---- MODULE Spec2Model ----
(***************************************************************************)
(* Budget aggregation of the Atlas life organizer (src/BudgetView.tsx).    *)
(*                                                                         *)
(* The state is the React state that the budget rests on: the budget entry *)
(* collection and the wishlist of the application shell, the active view,  *)
(* and, of BudgetView, the selected year and period, the entry modal and   *)
(* the list on display.  The useMemo aggregates (monthlyBreakdown,         *)
(* categoryProgressData, ...) are pure functions of that state, recomputed *)
(* on every render; they are operators over the state variables.  Amounts  *)
(* are whole currency units.  The budget figures that WishlistView and the *)
(* home dashboard compute for themselves are operators of the collection   *)
(* and the clock.                                                          *)
(***************************************************************************)
EXTENDS Integers, Sequences, FiniteSets, TLC

VARIABLES budgetEntries, year, selectedPeriod, modalState, nextId,
          activeNavId, wishlistItems, sortedEntries, alerted

vars == <<budgetEntries, year, selectedPeriod, modalState, nextId,
          activeNavId, wishlistItems, sortedEntries, alerted>>

(***************************************************************************)
(* Bounds of the model.                                                    *)
(***************************************************************************)
\* Entries ever created (crypto.randomUUID() is modelled by a counter).
MaxEntries == 2
\* The year buttons are usable within YearSpan years of the current year.
YearSpan == 1

\* The current date, new Date(): the year BudgetView opens on.
Today == <<2024, 6, 15>>

\* Values the entry form is submitted with.  A date <<y, m, d>> stands for
\* the string "YYYY-MM-DD" of the date input (m is 1..12).
FormDates == {<<2023, 11, 5>>, <<2024, 1, 10>>}
\* Category and amount field: one crypto entry overruns the crypto budget of
\* 100, two health entries overrun the health budget of 200.
FormSpends == {<<"crypto", "150">>, <<"health", "160">>}
FormNames == {"rent"}
FormNotes == {"memo"}
\* Amount fields that handleSubmit refuses: empty or not a number, zero,
\* negative.
BadAmounts == {"", "0", "-1"}

\* The wishes that are added to the wishlist, and what the Final Cost field
\* of the completion form is filled with.
Wishes == {[name |-> "bike", categoryId |-> "leisure"]}
FinalCostInputs == {"", "-1", "0", "150"}

(***************************************************************************)
(* Reference data.                                                         *)
(***************************************************************************)
initialCategories ==
    << [id |-> "travel",    budget |-> 1000],
       [id |-> "living",    budget |-> 2000],
       [id |-> "leisure",   budget |-> 500],
       [id |-> "savings",   budget |-> 500],
       [id |-> "health",    budget |-> 200],
       [id |-> "education", budget |-> 200],
       [id |-> "gifts",     budget |-> 200],
       [id |-> "crypto",    budget |-> 100],
       [id |-> "misc",      budget |-> 100] >>

categories == initialCategories

CategoryIds == {categories[i].id : i \in 1..Len(categories)}

Months == 0..11

\* The two shapes of selectedPeriod: 'year' or a month index 0..11.
PeriodYear == [kind |-> "year"]
PeriodMonth(m) == [kind |-> "month", index |-> m]

(***************************************************************************)
(* new Date(`${entry.date}T00:00:00Z`) and its UTC accessors.              *)
(***************************************************************************)
\* A date string that the Date constructor cannot read gives an Invalid
\* Date, whose time value and accessors are all NaN.  DateNaN stands for
\* that NaN: a number outside the range of every field of a Date.
DateNaN == -1
InvalidDate == <<DateNaN, DateNaN, DateNaN>>

getUTCFullYear(date) == date[1]

\* getUTCMonth() is zero-based: "2024-03-20" is month 2.
getUTCMonth(date) == IF date[2] = DateNaN THEN DateNaN ELSE date[2] - 1

\* Faulty variant: NaN is compared as a number below every other.
JsLt_NaNIsLeast(a, b) == a < b

\* The comparisons <, <= and === of two numbers: false as soon as one of
\* them is NaN.
JsLt(a, b) == a # DateNaN /\ b # DateNaN /\ a < b

\* Faulty variant: <= read as <.
JsLe_Strict(a, b) == a # DateNaN /\ b # DateNaN /\ a < b

JsLe(a, b) == a # DateNaN /\ b # DateNaN /\ a <= b

JsEq(a, b) == a # DateNaN /\ b # DateNaN /\ a = b

(***************************************************************************)
(* monthlyBreakdown                                                        *)
(***************************************************************************)
\* Array(12).fill(0).map(() => every category at 0)
EmptyBreakdown == [m \in Months |-> [c \in CategoryIds |-> 0]]

\* The loop for (let m = ...; m < 12; m++) breakdown[m][categoryId] += amount,
\* from its current m on.
RECURSIVE ForMonths(_, _, _, _)
ForMonths(breakdown, m, categoryId, amount) ==
    IF m < 12
    THEN ForMonths([breakdown EXCEPT ![m][categoryId] = @ + amount],
                   m + 1, categoryId, amount)
    ELSE breakdown

\* Faulty variant: the loop starts one month late (m = from + 1).
AddFromMonth_SkipsStart(breakdown, from, categoryId, amount) ==
    ForMonths(breakdown, from + 1, categoryId, amount)

\* for (let m = from; m < 12; m++) breakdown[m][categoryId] += amount
AddFromMonth(breakdown, from, categoryId, amount) ==
    ForMonths(breakdown, from, categoryId, amount)

\* if (breakdown[entryStartMonth]) breakdown[entryStartMonth][categoryId] += amount
AddToMonth(breakdown, month, categoryId, amount) ==
    IF month \in DOMAIN breakdown
    THEN [breakdown EXCEPT ![month][categoryId] = @ + amount]
    ELSE breakdown

\* Faulty variant: a recurrence is counted in its start year only (the
\* entryYear < year branch is missing).
ApplyEntry_StartYearOnly(breakdown, entry, y) ==
    LET entryYear == getUTCFullYear(entry.date)
        entryStartMonth == getUTCMonth(entry.date)
    IN  IF entry.isRecurring
        THEN IF entryYear = y
             THEN AddFromMonth(breakdown, entryStartMonth,
                               entry.categoryId, entry.amount)
             ELSE breakdown
        ELSE IF entryYear = y
             THEN AddToMonth(breakdown, entryStartMonth,
                             entry.categoryId, entry.amount)
             ELSE breakdown

\* Faulty variant: the first test is entryYear <= year, so a recurrence
\* fills its whole start year.
ApplyEntry_IgnoresStartMonth(breakdown, entry, y) ==
    LET entryYear == getUTCFullYear(entry.date)
        entryStartMonth == getUTCMonth(entry.date)
    IN  IF entry.isRecurring
        THEN IF entryYear <= y
             THEN AddFromMonth(breakdown, 0, entry.categoryId, entry.amount)
             ELSE breakdown
        ELSE IF entryYear = y
             THEN AddToMonth(breakdown, entryStartMonth,
                             entry.categoryId, entry.amount)
             ELSE breakdown

\* Faulty variant: a one-time entry is counted without the year test.
ApplyEntry_OneTimeAnyYear(breakdown, entry, y) ==
    LET entryYear == getUTCFullYear(entry.date)
        entryStartMonth == getUTCMonth(entry.date)
    IN  IF entry.isRecurring
        THEN IF entryYear < y
             THEN AddFromMonth(breakdown, 0, entry.categoryId, entry.amount)
             ELSE IF entryYear = y
                  THEN AddFromMonth(breakdown, entryStartMonth,
                                    entry.categoryId, entry.amount)
                  ELSE breakdown
        ELSE AddToMonth(breakdown, entryStartMonth,
                        entry.categoryId, entry.amount)

\* The body of budgetEntries.forEach(entry => ...), for target year y.
ApplyEntry(breakdown, entry, y) ==
    LET entryYear == getUTCFullYear(entry.date)
        entryStartMonth == getUTCMonth(entry.date)
    IN  IF entry.isRecurring
        THEN IF JsLt(entryYear, y)
             THEN AddFromMonth(breakdown, 0, entry.categoryId, entry.amount)
             ELSE IF JsEq(entryYear, y)
                  THEN AddFromMonth(breakdown, entryStartMonth,
                                    entry.categoryId, entry.amount)
                  ELSE breakdown
        ELSE IF JsEq(entryYear, y)
             THEN AddToMonth(breakdown, entryStartMonth,
                             entry.categoryId, entry.amount)
             ELSE breakdown

RECURSIVE ForEachEntry(_, _, _, _)
ForEachEntry(entries, i, breakdown, y) ==
    IF i > Len(entries)
    THEN breakdown
    ELSE ForEachEntry(entries, i + 1, ApplyEntry(breakdown, entries[i], y), y)

monthlyBreakdownOf(entries, y) == ForEachEntry(entries, 1, EmptyBreakdown, y)

monthlyBreakdown == monthlyBreakdownOf(budgetEntries, year)

(***************************************************************************)
(* categoryProgressData                                                    *)
(***************************************************************************)
\* Faulty variant: the reduction stops before December.
RECURSIVE ReduceMonths_DropsDecember(_, _, _, _)
ReduceMonths_DropsDecember(breakdown, categoryId, m, sum) ==
    IF m >= 11
    THEN sum
    ELSE ReduceMonths_DropsDecember(breakdown, categoryId, m + 1,
                                    sum + breakdown[m][categoryId])

\* monthlyBreakdown.reduce((sum, month) => sum + month[cat.id], 0)
RECURSIVE ReduceMonths(_, _, _, _)
ReduceMonths(breakdown, categoryId, m, sum) ==
    IF m >= 12
    THEN sum
    ELSE ReduceMonths(breakdown, categoryId, m + 1, sum + breakdown[m][categoryId])

\* Faulty variant: each month's deficit is computed on its own, without
\* the rollover carried in.
RolloverStep_Unchained(spentThisMonth, rollover, budget) ==
    LET deficit == spentThisMonth - budget
    IN  IF deficit > 0 THEN deficit ELSE 0

\* Faulty variant: the deficit is carried whatever its sign, so a surplus
\* is banked.
RolloverStep_BanksSurplus(spentThisMonth, rollover, budget) ==
    LET effectiveSpending == spentThisMonth + rollover
        deficit == effectiveSpending - budget
    IN  deficit

\* Faulty variant: without a new deficit the old rollover is kept instead
\* of being reset.
RolloverStep_NoReset(spentThisMonth, rollover, budget) ==
    LET effectiveSpending == spentThisMonth + rollover
        deficit == effectiveSpending - budget
    IN  IF deficit > 0 THEN deficit ELSE rollover

\* One category's pass through the body of the month loop: the new value
\* of rollovers[cat.id].
RolloverStep(spentThisMonth, rollover, budget) ==
    LET effectiveSpending == spentThisMonth + rollover
        deficit == effectiveSpending - budget
    IN  IF deficit > 0 THEN deficit ELSE 0

\* categories.forEach(cat => { ...; rollovers[cat.id] = ... }) for one
\* month.  rollovers is kept in the order of categories: rollovers[i] is
\* the code's rollovers[categories[i].id].
ForEachCategory(spentByCategory, rollovers) ==
    [i \in 1..Len(categories) |->
        RolloverStep(spentByCategory[categories[i].id], rollovers[i],
                     categories[i].budget)]

\* Faulty variant: the loop runs through the selected month
\* (month <= selectedPeriod).
RECURSIVE RolloverLoop_ThroughSelected(_, _, _, _)
RolloverLoop_ThroughSelected(breakdown, month, rollovers, selected) ==
    IF month <= selected
    THEN RolloverLoop_ThroughSelected(breakdown, month + 1,
             ForEachCategory(breakdown[month], rollovers), selected)
    ELSE rollovers

\* Faulty variant: the loop leaves January out (it starts at month 1).
RECURSIVE RolloverLoop_SkipsJanuary(_, _, _, _)
RolloverLoop_SkipsJanuary(breakdown, month, rollovers, selected) ==
    IF month < selected
    THEN RolloverLoop_SkipsJanuary(breakdown, month + 1,
             IF month = 0
             THEN rollovers
             ELSE ForEachCategory(breakdown[month], rollovers), selected)
    ELSE rollovers

\* for (let month = 0; month < selectedPeriod; month++) categories.forEach(...)
RECURSIVE RolloverLoop(_, _, _, _)
RolloverLoop(breakdown, month, rollovers, selected) ==
    IF month < selected
    THEN RolloverLoop(breakdown, month + 1,
                      ForEachCategory(breakdown[month], rollovers), selected)
    ELSE rollovers

\* const rollovers = {}; categories.forEach(c => rollovers[c.id] = 0)
InitialRollovers == [i \in 1..Len(categories) |-> 0]

\* The year branch: categories.map(cat => ({...cat, spent, budget, rollover}))
YearProgress(breakdown) ==
    [i \in 1..Len(categories) |->
        [id |-> categories[i].id,
         spent |-> ReduceMonths(breakdown, categories[i].id, 0, 0),
         budget |-> categories[i].budget * 12,
         rollover |-> 0]]

\* Faulty variant: the reported budget is what the rollover leaves of it.
MonthProgress_BudgetNetOfRollover(breakdown, selected) ==
    LET rollovers == RolloverLoop(breakdown, 0, InitialRollovers, selected)
    IN  [i \in 1..Len(categories) |->
            LET spentInSelectedMonth == breakdown[selected][categories[i].id]
                rolloverAmount == rollovers[i]
                effectiveSpending == spentInSelectedMonth + rolloverAmount
            IN  [id |-> categories[i].id,
                 spent |-> effectiveSpending,
                 budget |-> categories[i].budget - rolloverAmount,
                 rollover |-> rolloverAmount]]

\* The month branch.
MonthProgress(breakdown, selected) ==
    LET rollovers == RolloverLoop(breakdown, 0, InitialRollovers, selected)
    IN  [i \in 1..Len(categories) |->
            LET spentInSelectedMonth == breakdown[selected][categories[i].id]
                rolloverAmount == rollovers[i]
                effectiveSpending == spentInSelectedMonth + rolloverAmount
            IN  [id |-> categories[i].id,
                 spent |-> effectiveSpending,
                 budget |-> categories[i].budget,
                 rollover |-> rolloverAmount]]

categoryProgressDataOf(breakdown, period) ==
    IF period = PeriodYear
    THEN YearProgress(breakdown)
    ELSE MonthProgress(breakdown, period.index)

categoryProgressData == categoryProgressDataOf(monthlyBreakdown, selectedPeriod)

(***************************************************************************)
(* categorySpendingDataForChart: the slices of the pie chart.              *)
(***************************************************************************)
\* monthlyBreakdown.forEach(month => { for (const categoryId in month)
\*     yearlyCategorySpending[categoryId] += month[categoryId] })
RECURSIVE ForEachMonth(_, _, _)
ForEachMonth(breakdown, m, yearlyCategorySpending) ==
    IF m >= 12
    THEN yearlyCategorySpending
    ELSE ForEachMonth(breakdown, m + 1,
             [c \in CategoryIds |-> yearlyCategorySpending[c] + breakdown[m][c]])

\* Object.values(yearlyCategorySpending).reduce((a, b) => a + b, 0)
RECURSIVE SumValues(_, _, _)
SumValues(yearlyCategorySpending, i, acc) ==
    IF i > Len(categories)
    THEN acc
    ELSE SumValues(yearlyCategorySpending, i + 1,
                   acc + yearlyCategorySpending[categories[i].id])

\* Faulty variant: the share is left a fraction of 1.
Percentage_NotTimes100(value, totalSpent) == [num |-> value, den |-> totalSpent]

\* (value / totalSpent) * 100.  The quotient is kept exact, as the fraction
\* num / den; the rounding of the double is not represented.
Percentage(value, totalSpent) == [num |-> value * 100, den |-> totalSpent]

\* Faulty variant: the trailing .filter(d => d.value > 0) is missing.
categorySpendingDataForChartOf_Unfiltered(breakdown) ==
    LET yearlyCategorySpending ==
            ForEachMonth(breakdown, 0, [c \in CategoryIds |-> 0])
        totalSpent == SumValues(yearlyCategorySpending, 1, 0)
    IN  IF totalSpent = 0
        THEN << >>
        ELSE [i \in 1..Len(categories) |->
                 [id |-> categories[i].id,
                  value |-> yearlyCategorySpending[categories[i].id],
                  percentage |->
                      Percentage(yearlyCategorySpending[categories[i].id],
                                 totalSpent)]]

categorySpendingDataForChartOf(breakdown) ==
    LET yearlyCategorySpending ==
            ForEachMonth(breakdown, 0, [c \in CategoryIds |-> 0])
        totalSpent == SumValues(yearlyCategorySpending, 1, 0)
    IN  IF totalSpent = 0
        THEN << >>
        ELSE SelectSeq(
                 [i \in 1..Len(categories) |->
                     [id |-> categories[i].id,
                      value |-> yearlyCategorySpending[categories[i].id],
                      percentage |->
                          Percentage(yearlyCategorySpending[categories[i].id],
                                     totalSpent)]],
                 LAMBDA d : d.value > 0)

categorySpendingDataForChart == categorySpendingDataForChartOf(monthlyBreakdown)

(***************************************************************************)
(* entriesForPeriod: the entries listed for the selected period.           *)
(***************************************************************************)
\* Faulty variant: in the year view a recurring entry is tested like a
\* one-time entry (entryYear === year).
InPeriod_YearRecurringSameYear(entry, y, period) ==
    LET entryYear == getUTCFullYear(entry.date)
        entryMonth == getUTCMonth(entry.date)
    IN  IF period = PeriodYear
        THEN entryYear = y
        ELSE IF entry.isRecurring
             THEN entryYear < y \/ (entryYear = y /\ entryMonth <= period.index)
             ELSE entryYear = y /\ entryMonth = period.index

\* Faulty variant: in a month view a recurring entry of an earlier year is
\* tested by its start month too (the entryYear < year disjunct is missing).
InPeriod_MonthRecurringByMonthOnly(entry, y, period) ==
    LET entryYear == getUTCFullYear(entry.date)
        entryMonth == getUTCMonth(entry.date)
    IN  IF period = PeriodYear
        THEN IF entry.isRecurring
             THEN entryYear <= y
             ELSE entryYear = y
        ELSE IF entry.isRecurring
             THEN entryYear <= y /\ entryMonth <= period.index
             ELSE entryYear = y /\ entryMonth = period.index

\* The predicate of budgetEntries.filter(entry => ...).
InPeriod(entry, y, period) ==
    LET entryYear == getUTCFullYear(entry.date)
        entryMonth == getUTCMonth(entry.date)
    IN  IF period = PeriodYear
        THEN IF entry.isRecurring
             THEN JsLe(entryYear, y)
             ELSE JsEq(entryYear, y)
        ELSE IF entry.isRecurring
             THEN \/ JsLt(entryYear, y)
                  \/ JsEq(entryYear, y) /\ JsLe(entryMonth, period.index)
             ELSE JsEq(entryYear, y) /\ JsEq(entryMonth, period.index)

entriesForPeriodOf(entries, y, period) ==
    SelectSeq(entries, LAMBDA e : InPeriod(e, y, period))

entriesForPeriod == entriesForPeriodOf(budgetEntries, year, selectedPeriod)

\* BudgetEntryCard renders its Edit and Del buttons inside the card footer,
\* which exists only when the entry has notes or a linked event.
HasActions(entry) == entry.notes # "" \/ entry.linkedEventId # ""

\* Positions in budgetEntries of the entries whose card shows the buttons.
ActionableIndexes ==
    {i \in 1..Len(budgetEntries) :
        /\ InPeriod(budgetEntries[i], year, selectedPeriod)
        /\ HasActions(budgetEntries[i])}

(***************************************************************************)
(* BudgetEntryList: the listed entries in the order of display.            *)
(***************************************************************************)
\* new Date(entry.date).getTime(), counted in days of 31-day months: only
\* the order of the values matters to the comparator.
getTime(date) ==
    IF date[1] = DateNaN
    THEN DateNaN
    ELSE (date[1] * 12 + (date[2] - 1)) * 31 + date[3]

\* One insertion of the stable sort by (a, b) => getTime(b.date) -
\* getTime(a.date): e goes ahead of the first entry it is later than.  (The
\* list is sorted after the period filter, which no entry with an Invalid
\* Date passes, so the comparator never meets a NaN.)
RECURSIVE InsertSorted(_, _, _)
InsertSorted(sorted, e, i) ==
    IF i > Len(sorted)
    THEN Append(sorted, e)
    ELSE IF JsLt(getTime(sorted[i].date), getTime(e.date))
         THEN SubSeq(sorted, 1, i - 1) \o <<e>> \o SubSeq(sorted, i, Len(sorted))
         ELSE InsertSorted(sorted, e, i + 1)

\* entries.sort(...): descending by date, entries of one date in their
\* former order.
RECURSIVE SortEntries(_, _, _)
SortEntries(entries, i, sorted) ==
    IF i > Len(entries)
    THEN sorted
    ELSE SortEntries(entries, i + 1, InsertSorted(sorted, entries[i], 1))

\* Faulty variant: the list is handed the collection itself, so the sort in
\* place reorders the collection.
RenderEntryList_SortsCollection(collection, y, period) ==
    LET sorted == SortEntries(collection, 1, << >>)
    IN  [budgetEntries |-> sorted,
         sortedEntries |-> entriesForPeriodOf(sorted, y, period)]

\* A render of BudgetView with a new collection, year or period: the arrays
\* it leaves behind.  Array.prototype.sort sorts the array it is called on,
\* in place, and returns it; BudgetEntryList calls it on its entries prop,
\* which is entriesForPeriod, the new array made by budgetEntries.filter.
\* The collection is another array and keeps its order.
RenderEntryList(collection, y, period) ==
    LET entries == entriesForPeriodOf(collection, y, period)
    IN  [budgetEntries |-> collection,
         sortedEntries |-> SortEntries(entries, 1, << >>)]

\* The state after a render of BudgetView over `collection`, in the year
\* and period of the next state.
Rendered(collection) ==
    LET r == RenderEntryList(collection, year', selectedPeriod')
    IN  /\ budgetEntries' = r.budgetEntries
        /\ sortedEntries' = r.sortedEntries

(***************************************************************************)
(* The entry form (BudgetEntryModal).                                      *)
(***************************************************************************)
\* modalState.data is the entry being edited, or NoData in add mode.
NoData == [id |-> 0]

ModalClosed == [isOpen |-> FALSE, data |-> NoData]

\* A number is <<n>>; NaN, like undefined, is the empty tuple.
NaN == << >>

\* parseFloat on the strings of the model's number fields.
parseFloat(s) ==
    CASE s = "150" -> <<150>>
      [] s = "160" -> <<160>>
      [] s = "0"   -> <<0>>
      [] s = "-1"  -> <<-1>>
      [] OTHER     -> NaN

\* The fields of the form at submission; amount is the string of the input.
GoodInputs ==
    {[name |-> n, amount |-> s[2], date |-> d, categoryId |-> s[1],
      isRecurring |-> r, linkedEventId |-> "", notes |-> t] :
        n \in FormNames, s \in FormSpends, d \in FormDates,
        r \in BOOLEAN, t \in FormNotes}

\* A submission that leaves the optional fields as the form opens them: no
\* notes, no linked event, not recurring.
PlainInput ==
    [name |-> "rent", amount |-> "150", date |-> <<2024, 1, 10>>,
     categoryId |-> "crypto", isRecurring |-> FALSE, linkedEventId |-> "",
     notes |-> ""]

\* What the form is submitted with in the state machine: a recurring health
\* entry of 2023 and a one-time crypto entry of 2024, both with notes, the
\* plain submission, and the plain submission with its name or its amount
\* spoilt.
FormInputs ==
    {i \in GoodInputs :
        /\ i.isRecurring = (i.categoryId = "health")
        /\ i.isRecurring = (getUTCFullYear(i.date) < getUTCFullYear(Today))}
    \cup {PlainInput}
    \cup {[PlainInput EXCEPT !.name = ""]}
    \cup {[PlainInput EXCEPT !.amount = a] : a \in BadAmounts}

\* Faulty variant: an amount of zero passes (numericAmount < 0).
Rejected_AllowsZero(name, numericAmount) ==
    IF name = "" \/ numericAmount = NaN THEN TRUE ELSE numericAmount[1] < 0

\* !name || isNaN(numericAmount) || numericAmount <= 0
Rejected(name, numericAmount) ==
    IF name = "" \/ numericAmount = NaN THEN TRUE ELSE numericAmount[1] <= 0

\* What handleSubmit passes to onSave: Omit<BudgetEntry, 'id'>.
EntryData(input, numericAmount) ==
    [name |-> input.name, amount |-> numericAmount[1], date |-> input.date,
     categoryId |-> input.categoryId, isRecurring |-> input.isRecurring,
     linkedEventId |-> input.linkedEventId, notes |-> input.notes]

\* The entry data that the form saves for GoodInputs.
FormData == {EntryData(input, parseFloat(input.amount)) : input \in GoodInputs}

\* { ...entryData, id }
WithId(entryData, id) ==
    [id |-> id, name |-> entryData.name, amount |-> entryData.amount,
     date |-> entryData.date, categoryId |-> entryData.categoryId,
     isRecurring |-> entryData.isRecurring,
     linkedEventId |-> entryData.linkedEventId, notes |-> entryData.notes]

(***************************************************************************)
(* State machine                                                           *)
(***************************************************************************)
NavIds == {"home", "budget", "wishlist"}

\* The state of BudgetView as it mounts; the variables keep these values
\* while another view is shown.
BudgetViewMounts ==
    /\ year' = getUTCFullYear(Today)
    /\ selectedPeriod' = PeriodYear
    /\ modalState' = ModalClosed
    /\ alerted' = FALSE

Init ==
    /\ budgetEntries = << >>
    /\ wishlistItems = << >>
    /\ nextId = 1
    /\ activeNavId = "home"
    /\ year = getUTCFullYear(Today)
    /\ selectedPeriod = PeriodYear
    /\ modalState = ModalClosed
    /\ sortedEntries = << >>
    /\ alerted = FALSE

\* The sidebar: setActiveNavId(navId).  The view left is unmounted and the
\* view entered is mounted with its initial state.
handleNavigate_EntriesInView ==
    /\ ~modalState.isOpen
    /\ \E navId \in NavIds :
          /\ navId # activeNavId
          /\ activeNavId' = navId
          /\ BudgetViewMounts
          /\ IF navId = "budget"
             THEN Rendered(<< >>)
             ELSE /\ budgetEntries' = << >>
                  /\ sortedEntries' = << >>
    /\ UNCHANGED <<nextId, wishlistItems>>

handleNavigate ==
    /\ ~modalState.isOpen
    /\ \E navId \in NavIds :
          /\ navId # activeNavId
          /\ activeNavId' = navId
          /\ BudgetViewMounts
          /\ IF navId = "budget"
             THEN Rendered(budgetEntries)
             ELSE /\ UNCHANGED budgetEntries
                  /\ sortedEntries' = << >>
    /\ UNCHANGED <<nextId, wishlistItems>>

\* "+ Add Entry": setModalState({ isOpen: true })
OpenAddModal ==
    /\ activeNavId = "budget"
    /\ ~modalState.isOpen
    /\ modalState' = [isOpen |-> TRUE, data |-> NoData]
    /\ UNCHANGED <<budgetEntries, year, selectedPeriod, nextId, activeNavId,
                   wishlistItems, sortedEntries, alerted>>

\* The Edit button of a card: setModalState({ isOpen: true, data: entry })
handleEdit ==
    /\ activeNavId = "budget"
    /\ ~modalState.isOpen
    /\ \E i \in ActionableIndexes :
          modalState' = [isOpen |-> TRUE, data |-> budgetEntries[i]]
    /\ UNCHANGED <<budgetEntries, year, selectedPeriod, nextId, activeNavId,
                   wishlistItems, sortedEntries, alerted>>

\* Cancel, or a click on the overlay: onClose
CloseModal ==
    /\ activeNavId = "budget"
    /\ modalState.isOpen
    /\ modalState' = ModalClosed
    /\ alerted' = FALSE
    /\ UNCHANGED <<budgetEntries, year, selectedPeriod, nextId, activeNavId,
                   wishlistItems, sortedEntries>>

\* Faulty variant: the edited entry is taken out and put back at the end.
EditEntries_MovesToEnd(prev, entryData, id) ==
    Append(SelectSeq(prev, LAMBDA e : e.id # id), WithId(entryData, id))

\* prev.map(e => e.id === id ? { ...e, ...entryData, id } : e)
EditEntries(prev, entryData, id) ==
    [i \in 1..Len(prev) |->
        IF prev[i].id = id THEN WithId(entryData, id) ELSE prev[i]]

\* BudgetView.handleSave(entryData, id): id is 0 for a new entry.
handleSave(entryData, id) ==
    /\ IF id # 0
       THEN /\ Rendered(EditEntries(budgetEntries, entryData, id))
            /\ UNCHANGED nextId
       ELSE /\ nextId <= MaxEntries
            /\ Rendered(Append(budgetEntries, WithId(entryData, nextId)))
            /\ nextId' = nextId + 1
    /\ modalState' = ModalClosed

\* BudgetEntryModal.handleSubmit with the fields `input`: either
\* alert(...) and return, nothing saved and the modal left open, or
\* onSave(entry data, modalState.data?.id).
handleSubmit(input) ==
    /\ activeNavId = "budget"
    /\ modalState.isOpen
    /\ UNCHANGED <<year, selectedPeriod, activeNavId, wishlistItems>>
    /\ LET numericAmount == parseFloat(input.amount)
       IN  IF Rejected(input.name, numericAmount)
           THEN /\ alerted' = TRUE
                /\ UNCHANGED <<budgetEntries, modalState, nextId, sortedEntries>>
           ELSE /\ alerted' = FALSE
                /\ handleSave(EntryData(input, numericAmount), modalState.data.id)

\* A submission that is saved.
AcceptSubmit ==
    \E input \in FormInputs :
        /\ ~Rejected(input.name, parseFloat(input.amount))
        /\ handleSubmit(input)

\* A submission that is refused.
RejectSubmit ==
    \E input \in FormInputs :
        /\ Rejected(input.name, parseFloat(input.amount))
        /\ handleSubmit(input)

\* Faulty variant: the entries created after the deleted one go with it.
FilterOut_AndLater(prev, id) == SelectSeq(prev, LAMBDA e : e.id < id)

\* prev.filter(e => e.id !== id)
FilterOut(prev, id) == SelectSeq(prev, LAMBDA e : e.id # id)

\* BudgetView.handleDelete(id), window.confirm answered with `confirmed`.
handleDeleteOf(id, confirmed) ==
    /\ activeNavId = "budget"
    /\ ~modalState.isOpen
    /\ UNCHANGED <<year, selectedPeriod, modalState, nextId, activeNavId,
                   wishlistItems, alerted>>
    /\ IF confirmed
       THEN Rendered(FilterOut(budgetEntries, id))
       ELSE UNCHANGED <<budgetEntries, sortedEntries>>

\* The Del button of a card.
handleDelete ==
    \E i \in ActionableIndexes, confirmed \in BOOLEAN :
        handleDeleteOf(budgetEntries[i].id, confirmed)

\* Faulty variant: no effect on [year], the period stays as it was.
SetYear_KeepsPeriod ==
    /\ activeNavId = "budget"
    /\ ~modalState.isOpen
    /\ \E delta \in {-1, 1} :
          /\ year + delta >= getUTCFullYear(Today) - YearSpan
          /\ year + delta <= getUTCFullYear(Today) + YearSpan
          /\ year' = year + delta
    /\ UNCHANGED selectedPeriod
    /\ Rendered(budgetEntries)
    /\ UNCHANGED <<modalState, nextId, activeNavId, wishlistItems, alerted>>

\* The year buttons: setYear(year - 1) or setYear(year + 1); the effect on
\* [year] then runs setSelectedPeriod('year').  React runs the effect of a
\* click before it handles the next event, so that the click and its
\* effect are one step.
SetYear ==
    /\ activeNavId = "budget"
    /\ ~modalState.isOpen
    /\ \E delta \in {-1, 1} :
          /\ year + delta >= getUTCFullYear(Today) - YearSpan
          /\ year + delta <= getUTCFullYear(Today) + YearSpan
          /\ year' = year + delta
    /\ selectedPeriod' = PeriodYear
    /\ Rendered(budgetEntries)
    /\ UNCHANGED <<modalState, nextId, activeNavId, wishlistItems, alerted>>

\* BudgetPeriodNav: onSelectPeriod('year') or onSelectPeriod(index)
SelectPeriod ==
    /\ activeNavId = "budget"
    /\ ~modalState.isOpen
    /\ \E p \in {PeriodYear} \cup {PeriodMonth(m) : m \in Months} :
          selectedPeriod' = p
    /\ UNCHANGED year
    /\ Rendered(budgetEntries)
    /\ UNCHANGED <<modalState, nextId, activeNavId, wishlistItems, alerted>>

(***************************************************************************)
(* WishlistView: adding a wish and completing it.                          *)
(***************************************************************************)
\* WishlistView.handleSave in mode 'addItem' ("+ Add Wish", then the form).
\* The model adds each wish of Wishes once.
addItem ==
    /\ activeNavId = "wishlist"
    /\ \E w \in Wishes :
          /\ \A i \in 1..Len(wishlistItems) : wishlistItems[i].name # w.name
          /\ wishlistItems' =
                 Append(wishlistItems,
                        [id |-> Len(wishlistItems) + 1, name |-> w.name,
                         categoryId |-> w.categoryId, status |-> "active",
                         finalCost |-> NaN])
    /\ UNCHANGED <<budgetEntries, year, selectedPeriod, modalState, nextId,
                   activeNavId, sortedEntries, alerted>>

\* Faulty variant: the field has no min.
FinalCostFieldValid_NoMin(s) == s # "" /\ parseFloat(s) # NaN

\* <input id="finalCost" type="number" required step="0.01" min="0" />:
\* the form is submitted only with a number that is not negative.
FinalCostFieldValid(s) ==
    /\ s # ""
    /\ parseFloat(s) # NaN
    /\ parseFloat(s)[1] >= 0

\* Faulty variant: only undefined is falsy, 0 is not.
Truthy_ZeroIsTruthy(n) == n # NaN

\* The truthiness of a number or undefined: if (finalCost && ...)
Truthy(n) == n # NaN /\ n[1] # 0

\* The budget entry made for a completed wish.
newBudgetEntry(item, finalCost, id) ==
    [id |-> id, name |-> "Wish: " \o item.name, amount |-> finalCost[1],
     date |-> Today, categoryId |-> item.categoryId, isRecurring |-> FALSE,
     linkedEventId |-> "", notes |-> "Completed from wishlist."]

\* The Complete button of the active wish at position i, the completion
\* form filled with s, and WishlistView.handleSave in mode 'completeItem'.
completeItemWith(i, s) ==
    IF ~FinalCostFieldValid(s)
    THEN UNCHANGED vars
    ELSE LET finalCost == IF s # "" THEN parseFloat(s) ELSE NaN
         IN  /\ wishlistItems' =
                    [wishlistItems EXCEPT
                        ![i] = [@ EXCEPT !.status = "completed",
                                         !.finalCost = finalCost]]
             /\ IF Truthy(finalCost)
                THEN /\ nextId <= MaxEntries
                     /\ budgetEntries' =
                            Append(budgetEntries,
                                   newBudgetEntry(wishlistItems[i], finalCost, nextId))
                     /\ nextId' = nextId + 1
                ELSE UNCHANGED <<budgetEntries, nextId>>
             /\ UNCHANGED <<year, selectedPeriod, modalState, activeNavId,
                            sortedEntries, alerted>>

completeItem ==
    /\ activeNavId = "wishlist"
    /\ \E i \in 1..Len(wishlistItems), s \in FinalCostInputs :
          /\ wishlistItems[i].status = "active"
          /\ completeItemWith(i, s)

Next ==
    \/ handleNavigate
    \/ OpenAddModal
    \/ handleEdit
    \/ CloseModal
    \/ AcceptSubmit
    \/ RejectSubmit
    \/ handleDelete
    \/ SetYear
    \/ SelectPeriod
    \/ addItem
    \/ completeItem

Spec == Init /\ [][Next]_vars

(***************************************************************************)
(* The aggregates as pure functions of their inputs: every entry           *)
(* collection of up to MaxEntries entries is an input (the collection      *)
(* restored from local storage when the application starts), and opening   *)
(* BudgetView and using its year and period controls compute the           *)
(* aggregates over the collection.                                         *)
(***************************************************************************)
InitAgg ==
    /\ \E k \in 0..MaxEntries : \E f \in [1..k -> FormData] :
          /\ budgetEntries = [i \in 1..k |-> WithId(f[i], i)]
          /\ nextId = k + 1
    /\ wishlistItems = << >>
    /\ activeNavId = "home"
    /\ year = getUTCFullYear(Today)
    /\ selectedPeriod = PeriodYear
    /\ modalState = ModalClosed
    /\ sortedEntries = << >>
    /\ alerted = FALSE

NextAgg ==
    \/ handleNavigate
    \/ SetYear
    \/ SelectPeriod

SpecAgg == InitAgg /\ [][NextAgg]_vars

(***************************************************************************)
(* BudgetView header: totalSpent and totalBudget.                          *)
(***************************************************************************)
\* Object.values(month).reduce((acc, v) => acc + v, 0), from the i-th
\* category on.
RECURSIVE ReduceValues(_, _, _)
ReduceValues(month, i, acc) ==
    IF i > Len(categories)
    THEN acc
    ELSE ReduceValues(month, i + 1, acc + month[categories[i].id])

\* monthlyBreakdown.reduce((total, month) => total + (sum of the month), 0),
\* from month m on.
RECURSIVE ReduceBreakdown(_, _, _)
ReduceBreakdown(breakdown, m, total) ==
    IF m > 11
    THEN total
    ELSE ReduceBreakdown(breakdown, m + 1,
                         total + ReduceValues(breakdown[m], 1, 0))

\* Faulty variant: the month total is added up from the category progress,
\* so it includes the rollover.
totalSpentOf_WithRollover(breakdown, period) ==
    IF period = PeriodYear
    THEN ReduceBreakdown(breakdown, 0, 0)
    ELSE LET progress == categoryProgressDataOf(breakdown, period)
         IN  ReduceValues([c \in CategoryIds |->
                              progress[CHOOSE i \in 1..Len(progress) :
                                           progress[i].id = c].spent], 1, 0)

totalSpentOf(breakdown, period) ==
    IF period = PeriodYear
    THEN ReduceBreakdown(breakdown, 0, 0)
    ELSE ReduceValues(breakdown[period.index], 1, 0)

totalSpent == totalSpentOf(monthlyBreakdown, selectedPeriod)

\* categories.reduce((sum, cat) => sum + cat.budget, 0), from the i-th
\* category on.
RECURSIVE ReduceBudgets(_, _)
ReduceBudgets(i, sum) ==
    IF i > Len(initialCategories)
    THEN sum
    ELSE ReduceBudgets(i + 1, sum + initialCategories[i].budget)

totalBudgetOf(period) ==
    LET monthlyBudget == ReduceBudgets(1, 0)
    IN  IF period = PeriodYear THEN monthlyBudget * 12 ELSE monthlyBudget

totalBudget == totalBudgetOf(selectedPeriod)

\* BudgetHeader "Remaining": totalBudget - totalSpent
remaining == totalBudget - totalSpent

(***************************************************************************)
(* WishlistView and the home dashboard: their own budget arithmetic.  Each *)
(* reads the entry collection and the clock, now == new Date().            *)
(***************************************************************************)
\* Faulty variant: a recurrence of the current year counts from January on,
\* whatever its start month.
Spent_RecurringFromJanuary(entry, now) ==
    LET entryYear == getUTCFullYear(entry.date)
        entryMonth == getUTCMonth(entry.date)
        currentYear == getUTCFullYear(now)
        currentMonth == getUTCMonth(now)
    IN  IF entry.isRecurring
        THEN IF JsLe(entryYear, currentYear)
             THEN [thisYear |-> entry.amount * 12, thisMonth |-> entry.amount]
             ELSE [thisYear |-> 0, thisMonth |-> 0]
        ELSE IF JsEq(entryYear, currentYear)
             THEN [thisYear |-> entry.amount,
                   thisMonth |-> IF JsEq(entryMonth, currentMonth)
                                 THEN entry.amount ELSE 0]
             ELSE [thisYear |-> 0, thisMonth |-> 0]

\* The body of budgetEntries.forEach in categoryBudgetInfo and in
\* budgetOverview: what one entry adds to the month and to the year.
Spent(entry, now) ==
    LET entryYear == getUTCFullYear(entry.date)
        entryMonth == getUTCMonth(entry.date)
        currentYear == getUTCFullYear(now)
        currentMonth == getUTCMonth(now)
    IN  IF entry.isRecurring
        THEN IF JsLt(entryYear, currentYear)
             THEN [thisYear |-> entry.amount * 12, thisMonth |-> entry.amount]
             ELSE IF JsEq(entryYear, currentYear)
                  THEN [thisYear |-> entry.amount * (12 - entryMonth),
                        thisMonth |-> IF JsLe(entryMonth, currentMonth)
                                      THEN entry.amount ELSE 0]
                  ELSE [thisYear |-> 0, thisMonth |-> 0]
        ELSE IF JsEq(entryYear, currentYear)
             THEN [thisYear |-> entry.amount,
                   thisMonth |-> IF JsEq(entryMonth, currentMonth)
                                 THEN entry.amount ELSE 0]
             ELSE [thisYear |-> 0, thisMonth |-> 0]

\* categoryBudgetInfo, the inner budgetEntries.forEach for one category,
\* from the i-th entry on.
RECURSIVE SpentOfCategory(_, _, _, _, _, _)
SpentOfCategory(entries, i, categoryId, now, spentThisMonth, spentThisYear) ==
    IF i > Len(entries)
    THEN [spentThisMonth |-> spentThisMonth, spentThisYear |-> spentThisYear]
    ELSE IF entries[i].categoryId = categoryId
         THEN LET add == Spent(entries[i], now)
              IN  SpentOfCategory(entries, i + 1, categoryId, now,
                                  spentThisMonth + add.thisMonth,
                                  spentThisYear + add.thisYear)
         ELSE SpentOfCategory(entries, i + 1, categoryId, now,
                              spentThisMonth, spentThisYear)

\* categoryBudgetInfo: info[cat.id] for every category.  The record keeps
\* the two running sums next to the remainders computed from them.
categoryBudgetInfoOf(entries, now) ==
    [c \in CategoryIds |->
        LET cat == CHOOSE k \in 1..Len(initialCategories) :
                       initialCategories[k].id = c
            monthlyBudget == initialCategories[cat].budget
            yearlyBudget == initialCategories[cat].budget * 12
            sums == SpentOfCategory(entries, 1, c, now, 0, 0)
        IN  [spentThisMonth |-> sums.spentThisMonth,
             spentThisYear |-> sums.spentThisYear,
             monthlyRemaining |-> monthlyBudget - sums.spentThisMonth,
             yearlyRemaining |-> yearlyBudget - sums.spentThisYear]]

categoryBudgetInfo == categoryBudgetInfoOf(budgetEntries, Today)

\* budgetOverview, its budgetEntries.forEach from the i-th entry on.
RECURSIVE TotalsOfEntries(_, _, _, _, _)
TotalsOfEntries(entries, i, now, totalYearlySpent, totalMonthlySpent) ==
    IF i > Len(entries)
    THEN [totalYearlySpent |-> totalYearlySpent,
          totalMonthlySpent |-> totalMonthlySpent]
    ELSE LET add == Spent(entries[i], now)
         IN  TotalsOfEntries(entries, i + 1, now,
                             totalYearlySpent + add.thisYear,
                             totalMonthlySpent + add.thisMonth)

\* budgetOverview, with its two running totals kept in the record.
budgetOverviewOf(entries, now) ==
    LET totalMonthlyBudget == ReduceBudgets(1, 0)
        totalYearlyBudget == totalMonthlyBudget * 12
        totals == TotalsOfEntries(entries, 1, now, 0, 0)
    IN  [totalYearlySpent |-> totals.totalYearlySpent,
         totalMonthlySpent |-> totals.totalMonthlySpent,
         remainingYearly |-> totalYearlyBudget - totals.totalYearlySpent,
         remainingMonthly |-> totalMonthlyBudget - totals.totalMonthlySpent]

budgetOverview == budgetOverviewOf(budgetEntries, Today)

\* BudgetSnapshotCard.budgetSnapshot: the callback of budgetEntries.reduce.
\* Faulty variant: a recurrence of the current year counts from January on,
\* whatever its start month.
SnapshotStep_IgnoresStartMonth(total, entry, now) ==
    LET entryYear == getUTCFullYear(entry.date)
        entryMonth == getUTCMonth(entry.date)
        currentYear == getUTCFullYear(now)
        currentMonth == getUTCMonth(now)
    IN  IF entry.isRecurring
        THEN IF JsLe(entryYear, currentYear)
             THEN total + entry.amount
             ELSE total
        ELSE IF JsEq(entryYear, currentYear) /\ JsEq(entryMonth, currentMonth)
             THEN total + entry.amount
             ELSE total

SnapshotStep(total, entry, now) ==
    LET entryYear == getUTCFullYear(entry.date)
        entryMonth == getUTCMonth(entry.date)
        currentYear == getUTCFullYear(now)
        currentMonth == getUTCMonth(now)
    IN  IF entry.isRecurring
        THEN IF \/ JsLt(entryYear, currentYear)
                \/ JsEq(entryYear, currentYear) /\ JsLe(entryMonth, currentMonth)
             THEN total + entry.amount
             ELSE total
        ELSE IF JsEq(entryYear, currentYear) /\ JsEq(entryMonth, currentMonth)
             THEN total + entry.amount
             ELSE total

RECURSIVE ReduceSnapshot(_, _, _, _)
ReduceSnapshot(entries, i, now, total) ==
    IF i > Len(entries)
    THEN total
    ELSE ReduceSnapshot(entries, i + 1, now,
                        SnapshotStep(total, entries[i], now))

budgetSnapshotOf(entries, now) ==
    [monthlyBudget |-> ReduceBudgets(1, 0),
     spentThisMonth |-> ReduceSnapshot(entries, 1, now, 0)]

budgetSnapshot == budgetSnapshotOf(budgetEntries, Today)

(***************************************************************************)
(* The views over a stored collection.  createBudgetInitialState reads the *)
(* collection from local storage as it was saved, with whatever date       *)
(* strings it holds: the entries below carry the Date that the constructor *)
(* makes of the stored string, which is an Invalid Date for a string it    *)
(* cannot read.                                                            *)
(***************************************************************************)
StoredEntry(categoryId, amount, date, isRecurring) ==
    [name |-> "rent", amount |-> amount, date |-> date,
     categoryId |-> categoryId, isRecurring |-> isRecurring,
     linkedEventId |-> "", notes |-> "memo"]

StoredData ==
    {StoredEntry("crypto", 150, <<2023, 11, 5>>, TRUE),
     StoredEntry("crypto", 150, <<2024, 1, 10>>, FALSE),
     StoredEntry("health", 160, <<2024, 1, 10>>, TRUE),
     StoredEntry("health", 160, Today, FALSE),
     StoredEntry("crypto", 150, InvalidDate, TRUE),
     StoredEntry("health", 160, InvalidDate, FALSE)}

InitStored ==
    /\ \E k \in 0..MaxEntries : \E f \in [1..k -> StoredData] :
          /\ budgetEntries = [i \in 1..k |-> WithId(f[i], i)]
          /\ nextId = k + 1
    /\ wishlistItems = << >>
    /\ activeNavId = "home"
    /\ year = getUTCFullYear(Today)
    /\ selectedPeriod = PeriodYear
    /\ modalState = ModalClosed
    /\ sortedEntries = << >>
    /\ alerted = FALSE

NextStored ==
    \/ handleNavigate
    \/ SetYear
    \/ SelectPeriod

SpecStored == InitStored /\ [][NextStored]_vars

(***************************************************************************)
(* Vocabulary of the properties.                                           *)
(***************************************************************************)
\* The collection without its i-th entry.
WithoutEntry(entries, i) ==
    SubSeq(entries, 1, i - 1) \o SubSeq(entries, i + 1, Len(entries))

\* What entry i contributes to bucket m of category c in the selected year:
\* the bucket computed with the entry minus the bucket computed without it.
Contribution(with, without, m, c) == with[m][c] - without[m][c]

IsMonthView == selectedPeriod.kind = "month"

Max(a, b) == IF a >= b THEN a ELSE b

\* The rollover entering month m of a category with raw spends raw[0..11]
\* and monthly budget b, by the recurrence of the specification.
RECURSIVE RolloverEntering(_, _, _)
RolloverEntering(raw, b, m) ==
    IF m = 0
    THEN 0
    ELSE Max(0, raw[m - 1] + RolloverEntering(raw, b, m - 1) - b)

\* The raw spends of category c over the months of a breakdown.
RawOf(breakdown, c) == [m \in Months |-> breakdown[m][c]]

(***************************************************************************)
(* Properties of monthlyBreakdown.                                         *)
(***************************************************************************)
\* C1: a recurring entry whose start year is before the selected year adds
\* its amount to its own category in each of the 12 monthly buckets,
\* however many years earlier it started.
C1_RecurringPriorYearFillsAllMonths ==
    LET with == monthlyBreakdown
    IN  \A i \in 1..Len(budgetEntries) :
            LET e == budgetEntries[i]
                without == monthlyBreakdownOf(WithoutEntry(budgetEntries, i), year)
            IN  (e.isRecurring /\ getUTCFullYear(e.date) < year)
                => \A m \in Months :
                       Contribution(with, without, m, e.categoryId) = e.amount

\* A recurring entry that started two years before the selected year is
\* counted in December of the selected year.
C1_Witness ==
    \E i \in 1..Len(budgetEntries) :
        /\ budgetEntries[i].isRecurring
        /\ getUTCFullYear(budgetEntries[i].date) + 2 <= year
        /\ monthlyBreakdown[11][budgetEntries[i].categoryId]
               >= budgetEntries[i].amount

\* C2: a recurring entry that starts in month EM of the selected year adds
\* its amount to its own category in every bucket EM..11, bucket EM and
\* bucket 11 included.
C2_RecurringSameYearFillsFromStart ==
    LET with == monthlyBreakdown
    IN  \A i \in 1..Len(budgetEntries) :
            LET e == budgetEntries[i]
                without == monthlyBreakdownOf(WithoutEntry(budgetEntries, i), year)
            IN  (e.isRecurring /\ getUTCFullYear(e.date) = year)
                => \A m \in getUTCMonth(e.date)..11 :
                       Contribution(with, without, m, e.categoryId) = e.amount

\* A recurring entry starting after January of the selected year is counted
\* in its start month and in December.
C2_Witness ==
    \E i \in 1..Len(budgetEntries) :
        LET e == budgetEntries[i]
        IN  /\ e.isRecurring
            /\ getUTCFullYear(e.date) = year
            /\ getUTCMonth(e.date) > 0
            /\ getUTCMonth(e.date) < 11
            /\ monthlyBreakdown[getUTCMonth(e.date)][e.categoryId] >= e.amount
            /\ monthlyBreakdown[11][e.categoryId] >= e.amount

\* C3: a recurring entry contributes nothing, to any category, in the
\* buckets before its start month of its start year, and nothing to any
\* bucket of a year before its start year.
C3_RecurringNothingBeforeStart ==
    LET with == monthlyBreakdown
    IN  \A i \in 1..Len(budgetEntries) :
            LET e == budgetEntries[i]
                without == monthlyBreakdownOf(WithoutEntry(budgetEntries, i), year)
                entryYear == getUTCFullYear(e.date)
                silent == IF entryYear > year
                          THEN Months
                          ELSE IF entryYear = year
                               THEN 0..(getUTCMonth(e.date) - 1)
                               ELSE {}
            IN  e.isRecurring
                => \A m \in silent : \A c \in CategoryIds :
                       Contribution(with, without, m, c) = 0

\* The list holds a recurring entry that has not started in January of the
\* selected year, and that bucket of its category is empty.
C3_Witness ==
    \E i \in 1..Len(budgetEntries) :
        LET e == budgetEntries[i]
        IN  /\ e.isRecurring
            /\ \/ getUTCFullYear(e.date) > year
               \/ getUTCFullYear(e.date) = year /\ getUTCMonth(e.date) > 0
            /\ monthlyBreakdown[0][e.categoryId] = 0
            /\ Len(budgetEntries) > 1

\* C4: a one-time entry adds its amount to exactly one bucket, its month of
\* its year under its own category, and nothing to any other month or
\* category of that year or to any bucket of another year.
C4_OneTimeSingleBucket ==
    LET with == monthlyBreakdown
    IN  \A i \in 1..Len(budgetEntries) :
            LET e == budgetEntries[i]
                without == monthlyBreakdownOf(WithoutEntry(budgetEntries, i), year)
            IN  ~e.isRecurring
                => \A m \in Months : \A c \in CategoryIds :
                       Contribution(with, without, m, c) =
                           IF /\ getUTCFullYear(e.date) = year
                              /\ getUTCMonth(e.date) = m
                              /\ e.categoryId = c
                           THEN e.amount
                           ELSE 0

\* A one-time entry of the selected year shares its bucket with another entry.
C4_Witness ==
    \E i \in 1..Len(budgetEntries) :
        LET e == budgetEntries[i]
        IN  /\ ~e.isRecurring
            /\ getUTCFullYear(e.date) = year
            /\ monthlyBreakdown[getUTCMonth(e.date)][e.categoryId] > e.amount

(***************************************************************************)
(* Properties of categoryProgressData.                                     *)
(***************************************************************************)
\* C5: in a month view M every category reports as rollover the rollover
\* entering month M (months 0..M-1 simulated in order), as spent the raw
\* bucket of month M plus that rollover, and as budget its nominal monthly
\* budget.
C5_MonthProgressReport ==
    IsMonthView =>
        LET mb == monthlyBreakdown
            progress == categoryProgressDataOf(mb, selectedPeriod)
            M == selectedPeriod.index
        IN  /\ Len(progress) = Len(categories)
            /\ \A i \in 1..Len(categories) :
                   LET cat == categories[i]
                       entering == RolloverEntering(RawOf(mb, cat.id), cat.budget, M)
                   IN  /\ progress[i].id = cat.id
                       /\ progress[i].rollover = entering
                       /\ progress[i].spent = mb[M][cat.id] + entering
                       /\ progress[i].budget = cat.budget

\* A month view in which a category carries a deficit in and is spent on.
C5_Witness ==
    /\ IsMonthView
    /\ \E i \in 1..Len(categories) :
           /\ categoryProgressData[i].rollover > 0
           /\ monthlyBreakdown[selectedPeriod.index][categories[i].id] > 0
           /\ categoryProgressData[i].spent > categoryProgressData[i].budget

\* C6: rollover is chained: it is 0 entering month 0, and for every month
\* m below the selected month the rollover entering m + 1 is
\* max(0, raw spend of m + rollover entering m - monthly budget), each
\* category by its own spend and budget.
C6_RolloverChained ==
    IsMonthView =>
        LET mb == monthlyBreakdown
        IN  /\ \A i \in 1..Len(categories) :
                   categoryProgressDataOf(mb, PeriodMonth(0))[i].rollover = 0
            /\ \A m \in 0..(selectedPeriod.index - 1) :
                   LET entering == categoryProgressDataOf(mb, PeriodMonth(m))
                       leaving == categoryProgressDataOf(mb, PeriodMonth(m + 1))
                   IN  \A i \in 1..Len(categories) :
                           leaving[i].rollover =
                               Max(0, mb[m][categories[i].id] + entering[i].rollover
                                          - categories[i].budget)

\* A deficit shrinks from one month to the next without vanishing: the
\* month before the selected one was entered with a larger rollover.
C6_Witness ==
    /\ IsMonthView
    /\ selectedPeriod.index >= 2
    /\ \E i \in 1..Len(categories) :
           LET before == categoryProgressDataOf(monthlyBreakdown,
                             PeriodMonth(selectedPeriod.index - 1))[i].rollover
           IN  /\ categoryProgressData[i].rollover > 0
               /\ categoryProgressData[i].rollover < before

\* C7: rollover never banks a surplus: in every month view the reported
\* rollover is >= 0 and the reported spent is at least the raw spend of the
\* selected month.
C7_NoSurplusBanked ==
    IsMonthView =>
        LET mb == monthlyBreakdown
            progress == categoryProgressDataOf(mb, selectedPeriod)
        IN  \A i \in 1..Len(categories) :
                /\ progress[i].rollover >= 0
                /\ progress[i].spent >= mb[selectedPeriod.index][categories[i].id]

\* The month before the selected one was under-spent by a category that
\* did spend, and nothing is carried over.
C7_Witness ==
    /\ IsMonthView
    /\ selectedPeriod.index >= 1
    /\ \E i \in 1..Len(categories) :
           LET raw == monthlyBreakdown[selectedPeriod.index - 1][categories[i].id]
           IN  /\ raw > 0
               /\ raw < categories[i].budget
               /\ categoryProgressData[i].rollover = 0
               /\ categoryProgressData[i].spent =
                      monthlyBreakdown[selectedPeriod.index][categories[i].id]

\* C8 as stated: whenever the raw spending of month m is below the monthly
\* budget, the rollover entering month m + 1 is 0, whatever was carried
\* into month m.
C8_ResetOnRawUnderspend ==
    (IsMonthView /\ selectedPeriod.index >= 1) =>
        LET mb == monthlyBreakdown
            progress == categoryProgressDataOf(mb, selectedPeriod)
        IN  \A i \in 1..Len(categories) :
                mb[selectedPeriod.index - 1][categories[i].id] < categories[i].budget
                => progress[i].rollover = 0

\* C8 (amended): whenever the effective spending of month m, its raw
\* spending plus the rollover carried into it, does not exceed the monthly
\* budget, the rollover entering month m + 1 is 0.
C8_ResetOnEffectiveUnderspend ==
    (IsMonthView /\ selectedPeriod.index >= 1) =>
        LET mb == monthlyBreakdown
            progress == categoryProgressDataOf(mb, selectedPeriod)
            before == categoryProgressDataOf(mb, PeriodMonth(selectedPeriod.index - 1))
        IN  \A i \in 1..Len(categories) :
                mb[selectedPeriod.index - 1][categories[i].id] + before[i].rollover
                    <= categories[i].budget
                => progress[i].rollover = 0

\* A deficit carried into the month before the selected one is absorbed
\* there: nothing enters the selected month.
C8_Witness ==
    /\ IsMonthView
    /\ selectedPeriod.index >= 1
    /\ \E i \in 1..Len(categories) :
           /\ categoryProgressDataOf(monthlyBreakdown,
                  PeriodMonth(selectedPeriod.index - 1))[i].rollover > 0
           /\ monthlyBreakdown[selectedPeriod.index - 1][categories[i].id] > 0
           /\ categoryProgressData[i].rollover = 0

\* The breakdown with the buckets of month `from` and later emptied.
BeforeMonth(breakdown, from) ==
    [m \in Months |-> IF m < from THEN breakdown[m] ELSE EmptyBreakdown[m]]

\* C9: rollover is confined to one year: in the January view every
\* category has rollover 0 and spent equal to the raw January spend,
\* whatever was overspent in earlier years, and the rollover of month M
\* depends only on the buckets 0..M-1 of the selected year.
C9_RolloverWithinYear ==
    IsMonthView =>
        LET mb == monthlyBreakdown
            progress == categoryProgressDataOf(mb, selectedPeriod)
            M == selectedPeriod.index
            earlier == categoryProgressDataOf(BeforeMonth(mb, M), selectedPeriod)
        IN  \A i \in 1..Len(categories) :
                /\ M = 0 => /\ progress[i].rollover = 0
                            /\ progress[i].spent = mb[0][categories[i].id]
                /\ progress[i].rollover = earlier[i].rollover

\* January of a year whose previous December overran a category's budget,
\* a category that is spent on in January too.
C9_Witness ==
    /\ selectedPeriod = PeriodMonth(0)
    /\ \E i \in 1..Len(categories) :
           /\ monthlyBreakdownOf(budgetEntries, year - 1)[11][categories[i].id]
                  > categories[i].budget
           /\ monthlyBreakdown[0][categories[i].id] > categories[i].budget
           /\ categoryProgressData[i].rollover = 0

\* C10: in the year view every category reports rollover 0, budget equal
\* to 12 times its monthly budget, and spent equal to the sum of its raw
\* values over the 12 monthly buckets.
C10_YearProgressReport ==
    selectedPeriod = PeriodYear =>
        LET mb == monthlyBreakdown
            progress == categoryProgressDataOf(mb, selectedPeriod)
        IN  /\ Len(progress) = Len(categories)
            /\ \A i \in 1..Len(categories) :
                   LET c == categories[i].id
                   IN  /\ progress[i].id = c
                       /\ progress[i].rollover = 0
                       /\ progress[i].budget = 12 * categories[i].budget
                       /\ progress[i].spent =
                              mb[0][c] + mb[1][c] + mb[2][c] + mb[3][c]
                              + mb[4][c] + mb[5][c] + mb[6][c] + mb[7][c]
                              + mb[8][c] + mb[9][c] + mb[10][c] + mb[11][c]

\* A year view of a year in which a category overran its monthly budget in
\* some month without using up its budget of the year.
C10_Witness ==
    /\ selectedPeriod = PeriodYear
    /\ \E i \in 1..Len(categories) :
           /\ \E m \in Months :
                  monthlyBreakdown[m][categories[i].id] > categories[i].budget
           /\ categoryProgressData[i].spent > 0
           /\ categoryProgressData[i].spent < categoryProgressData[i].budget

(***************************************************************************)
(* Properties of entriesForPeriod.                                         *)
(***************************************************************************)
\* The ids of a list of entries.
IdsOf(entries) == {entries[i].id : i \in 1..Len(entries)}

\* The ids of the entries of the collection that satisfy P.
IdsWhere(P(_)) ==
    {budgetEntries[i].id : i \in {j \in 1..Len(budgetEntries) : P(budgetEntries[j])}}

\* Every listed entry is an entry of the collection, listed once.
ListedOnce(listed) ==
    /\ Cardinality(IdsOf(listed)) = Len(listed)
    /\ \A i \in 1..Len(listed) :
           \E j \in 1..Len(budgetEntries) : listed[i] = budgetEntries[j]

\* C11: in the year view of year Y the listed entries are exactly the
\* one-time entries with entryYear = Y together with the recurring entries
\* with entryYear <= Y: none else is listed and none of these is left out.
C11_YearViewFilter ==
    selectedPeriod = PeriodYear =>
        LET listed == entriesForPeriodOf(budgetEntries, year, selectedPeriod)
            OneTimeOfYear(e) == ~e.isRecurring /\ e.date[1] = year
            RecurringByYear(e) == e.isRecurring /\ e.date[1] <= year
        IN  /\ ListedOnce(listed)
            /\ IdsOf(listed) = IdsWhere(OneTimeOfYear) \cup IdsWhere(RecurringByYear)

\* A year view that lists a recurring entry started in an earlier year and
\* leaves out a one-time entry of another year.
C11_Witness ==
    /\ selectedPeriod = PeriodYear
    /\ \E i, j \in 1..Len(budgetEntries) :
           /\ budgetEntries[i].isRecurring
           /\ budgetEntries[i].date[1] < year
           /\ budgetEntries[i].id \in IdsOf(entriesForPeriod)
           /\ ~budgetEntries[j].isRecurring
           /\ budgetEntries[j].date[1] # year
           /\ budgetEntries[j].id \notin IdsOf(entriesForPeriod)

\* C12: in the view of month M of year Y the listed entries are exactly the
\* one-time entries with entryYear = Y and entryMonth = M together with the
\* recurring entries with entryYear < Y or (entryYear = Y and entryMonth <= M).
C12_MonthViewFilter ==
    IsMonthView =>
        LET listed == entriesForPeriodOf(budgetEntries, year, selectedPeriod)
            M == selectedPeriod.index
            OneTimeOfMonth(e) ==
                ~e.isRecurring /\ e.date[1] = year /\ e.date[2] - 1 = M
            RecurringStarted(e) ==
                e.isRecurring /\ (e.date[1] < year
                                    \/ (e.date[1] = year /\ e.date[2] - 1 <= M))
        IN  /\ ListedOnce(listed)
            /\ IdsOf(listed) = IdsWhere(OneTimeOfMonth) \cup IdsWhere(RecurringStarted)

\* A month view, earlier in the year than November, that lists a recurring
\* entry started in November of an earlier year and leaves out a one-time
\* entry of the selected year's other months.
C12_Witness ==
    /\ IsMonthView
    /\ \E i, j \in 1..Len(budgetEntries) :
           /\ budgetEntries[i].isRecurring
           /\ budgetEntries[i].date[1] < year
           /\ budgetEntries[i].date[2] - 1 > selectedPeriod.index
           /\ budgetEntries[i].id \in IdsOf(entriesForPeriod)
           /\ ~budgetEntries[j].isRecurring
           /\ budgetEntries[j].date[1] = year
           /\ budgetEntries[j].date[2] - 1 # selectedPeriod.index
           /\ budgetEntries[j].id \notin IdsOf(entriesForPeriod)

(***************************************************************************)
(* Properties of categorySpendingDataForChart.                             *)
(***************************************************************************)
\* The sum of a category's 12 monthly buckets.
YearlySum(breakdown, c) ==
    breakdown[0][c] + breakdown[1][c] + breakdown[2][c] + breakdown[3][c]
    + breakdown[4][c] + breakdown[5][c] + breakdown[6][c] + breakdown[7][c]
    + breakdown[8][c] + breakdown[9][c] + breakdown[10][c] + breakdown[11][c]

\* The sum of f over the positions of a sequence of slices.
RECURSIVE SumOver(_, _, _)
SumOver(slices, f(_), i) ==
    IF i > Len(slices) THEN 0 ELSE f(slices[i]) + SumOver(slices, f, i + 1)

\* C13: the pie has one slice for each category whose yearly sum over the
\* 12 buckets is nonzero, and no other; a slice's value is that yearly sum;
\* when the total spend of the year is 0 there is no slice at all.
C13_PieSlices ==
    LET mb == monthlyBreakdown
        slices == categorySpendingDataForChartOf(mb)
        spending == {c \in CategoryIds : YearlySum(mb, c) # 0}
    IN  /\ Cardinality(IdsOf(slices)) = Len(slices)
        /\ IdsOf(slices) = spending
        /\ \A i \in 1..Len(slices) : slices[i].value = YearlySum(mb, slices[i].id)
        /\ (\A c \in CategoryIds : YearlySum(mb, c) = 0) => slices = << >>

\* Two categories are spent on in the selected year and the others are not.
C13_Witness ==
    /\ Len(categorySpendingDataForChart) = 2
    /\ \E c \in CategoryIds : YearlySum(monthlyBreakdown, c) = 0

\* C14: when the total spend of the year is nonzero, each slice's
\* percentage is its value over the sum of all slice values, times 100, and
\* the percentages of the slices sum to 100: the slice values sum to the
\* total spend of the year.  A percentage is the exact fraction num / den.
C14_PiePercentages ==
    LET mb == monthlyBreakdown
        slices == categorySpendingDataForChartOf(mb)
        Value(d) == d.value
        Num(d) == d.percentage.num
        yearTotal == SumOver(categories, LAMBDA cat : YearlySum(mb, cat.id), 1)
        sliceTotal == SumOver(slices, Value, 1)
    IN  yearTotal # 0 =>
            /\ slices # << >>
            /\ sliceTotal = yearTotal
            /\ \A i \in 1..Len(slices) :
                   /\ slices[i].percentage.num = slices[i].value * 100
                   /\ slices[i].percentage.den = sliceTotal
            /\ SumOver(slices, Num, 1) = 100 * sliceTotal

\* The year's spend is split unevenly between two slices.
C14_Witness ==
    LET slices == categorySpendingDataForChart
    IN  /\ Len(slices) = 2
        /\ slices[1].percentage.num # slices[2].percentage.num
        /\ slices[1].percentage.num + slices[2].percentage.num
               = 100 * slices[1].percentage.den

(***************************************************************************)
(* Properties of the aggregation as a whole.                               *)
(***************************************************************************)
\* C15: the aggregates are computed from the entry collection, the year and
\* the period alone and computing them leaves the collection as it was,
\* contents and order: a recomputation for another year or period does not
\* touch the collection, and the list BudgetView displays is the one these
\* inputs give whenever they are computed from.
C15_AggregationIsPure ==
    [][/\ budgetEntries' = budgetEntries
       /\ activeNavId' = "budget" =>
              sortedEntries' =
                  SortEntries(entriesForPeriodOf(budgetEntries, year',
                                                 selectedPeriod'), 1, << >>)]_vars

\* A month view whose list of two or more entries is displayed in another
\* order than the collection holds them in.
C15_Witness ==
    /\ IsMonthView
    /\ Len(sortedEntries) >= 2
    /\ sortedEntries # entriesForPeriod
    /\ IdsOf(sortedEntries) = IdsOf(entriesForPeriod)

(***************************************************************************)
(* Properties of the entry collection under the user's operations.         *)
(***************************************************************************)
\* C16: starting from an empty collection, after any sequence of budget
\* add, edit and delete operations and wishlist completions, every entry of
\* the collection has an amount > 0.
C16_AmountsPositive ==
    \A i \in 1..Len(budgetEntries) : budgetEntries[i].amount > 0

\* The collection holds an entry made by a wishlist completion and an entry
\* saved by the form.
C16_Witness ==
    \E i, j \in 1..Len(budgetEntries) :
        /\ budgetEntries[i].notes = "Completed from wishlist."
        /\ budgetEntries[j].name \in FormNames
        /\ \E k \in 1..Len(wishlistItems) : wishlistItems[k].status = "completed"

\* A submission the form has to refuse: no name, or an amount that is
\* empty, not a number, zero or negative.
IsBadInput(input) == input.name = "" \/ input.amount \in {"", "0", "-1"}

\* C17: a submission of the entry form, to add or to edit, with an empty
\* name, a non-numeric amount or an amount <= 0 is rejected: the entry
\* collection is unchanged and the modal stays open as it was.
C17_RejectedSubmitChangesNothing ==
    [][\A input \in FormInputs :
           (IsBadInput(input) /\ handleSubmit(input))
           => /\ budgetEntries' = budgetEntries
              /\ modalState' = modalState
              /\ modalState'.isOpen
              /\ nextId' = nextId]_vars

\* An edit of an entry of the collection has been refused and its modal is
\* still open on that entry.
C17_Witness ==
    /\ alerted
    /\ modalState.isOpen
    /\ \E i \in 1..Len(budgetEntries) : modalState.data = budgetEntries[i]

\* C18: a successful edit of the entry with id X puts the submitted name,
\* amount, date, category, recurring flag, linked event and notes in that
\* entry, which keeps id X and its position; every other entry and the
\* number of entries are unchanged.
C18_EditInPlace ==
    [][\A input \in FormInputs :
           (~IsBadInput(input) /\ modalState.data.id # 0 /\ handleSubmit(input))
           => LET X == modalState.data.id
              IN  /\ Len(budgetEntries') = Len(budgetEntries)
                  /\ \E i \in 1..Len(budgetEntries) : budgetEntries[i].id = X
                  /\ \A i \in 1..Len(budgetEntries) :
                         IF budgetEntries[i].id = X
                         THEN budgetEntries'[i] =
                                  [id |-> X, name |-> input.name,
                                   amount |-> parseFloat(input.amount)[1],
                                   date |-> input.date,
                                   categoryId |-> input.categoryId,
                                   isRecurring |-> input.isRecurring,
                                   linkedEventId |-> input.linkedEventId,
                                   notes |-> input.notes]
                         ELSE budgetEntries'[i] = budgetEntries[i]]_vars

\* Two entries were created and none deleted; one of them was made by a
\* wishlist completion and has since been edited into a form entry, first
\* in the collection as before.
C18_Witness ==
    /\ nextId = 3
    /\ Len(budgetEntries) = 2
    /\ budgetEntries[1].id = 1
    /\ budgetEntries[2].id = 2
    /\ budgetEntries[1].name \in FormNames
    /\ budgetEntries[2].name \in FormNames
    /\ \E k \in 1..Len(wishlistItems) :
           /\ wishlistItems[k].status = "completed"
           /\ wishlistItems[k].finalCost = <<150>>

C20_ListedEntriesHaveActions ==
    (activeNavId = "budget" /\ ~modalState.isOpen) =>
        \A i \in 1..Len(budgetEntries) :
            InPeriod(budgetEntries[i], year, selectedPeriod)
            => i \in ActionableIndexes

\* C21 as stated: the entry collection changes only in an add, an edit or a
\* delete of a budget entry made in the budget view; no step of another
\* view changes it.
C21_OnlyBudgetViewMutates ==
    [][budgetEntries' # budgetEntries
       => \/ \E input \in FormInputs : handleSubmit(input)
          \/ \E i \in 1..Len(budgetEntries) :
                 handleDeleteOf(budgetEntries[i].id, TRUE)]_vars

\* C21: the entry collection changes only in an accepted submission of the
\* entry form (add or edit), in a confirmed delete, or in the completion of
\* a wish with a final cost above zero, which appends one entry; changing
\* the year or the period, navigating, opening or closing the modal and
\* adding a wish leave it as it is.
C21_OnlyWritersMutate ==
    [][budgetEntries' # budgetEntries
       => \/ \E input \in FormInputs :
                 ~IsBadInput(input) /\ handleSubmit(input)
          \/ \E i \in 1..Len(budgetEntries) :
                 handleDeleteOf(budgetEntries[i].id, TRUE)
          \/ \E i \in 1..Len(wishlistItems) : \E s \in FinalCostInputs :
                 /\ Truthy(parseFloat(s))
                 /\ activeNavId = "wishlist"
                 /\ completeItemWith(i, s)
                 /\ Len(budgetEntries') = Len(budgetEntries) + 1]_vars

\* A form entry and a wishlist entry are in the collection while the budget
\* view shows a month of another year: year, period and view have changed
\* since the entries were written.
C21_Witness ==
    /\ activeNavId = "budget"
    /\ year # getUTCFullYear(Today)
    /\ IsMonthView
    /\ Len(budgetEntries) = 2
    /\ budgetEntries[1].name \in FormNames
    /\ budgetEntries[2].notes = "Completed from wishlist."

\* The clock of a day of the month that the budget view displays.
NowInDisplayedMonth == <<year, selectedPeriod.index + 1, 15>>

\* C22 as stated: with the clock in the displayed month, the wishlist's
\* monthly spent figure of every category is the CategoryProgress spent of
\* that category, rollover included, and the home dashboard's monthly spent
\* figure is the sum of CategoryProgress spent over the categories.
C22_ViewsShowProgressSpent ==
    (activeNavId = "budget" /\ IsMonthView) =>
        LET now == NowInDisplayedMonth
            info == categoryBudgetInfoOf(budgetEntries, now)
            SpentOf(p) == p.spent
        IN  /\ \A i \in 1..Len(categoryProgressData) :
                   info[categoryProgressData[i].id].spentThisMonth
                       = categoryProgressData[i].spent
            /\ budgetSnapshotOf(budgetEntries, now).spentThisMonth
                   = SumOver(categoryProgressData, SpentOf, 1)

\* C22: with the clock in the displayed month, the wishlist's monthly spent
\* figure of every category is the CategoryProgress spent of that category
\* less its reported rollover, and the home dashboard's monthly spent figure
\* is the sum of those differences: the two views leave out the rollover
\* carried from earlier months, and agree with CategoryProgress spent
\* exactly where no rollover is carried.
C22_ViewsShowSpentLessRollover ==
    (activeNavId = "budget" /\ IsMonthView) =>
        LET now == NowInDisplayedMonth
            info == categoryBudgetInfoOf(budgetEntries, now)
            SpentLessRollover(p) == p.spent - p.rollover
        IN  /\ \A i \in 1..Len(categoryProgressData) :
                   info[categoryProgressData[i].id].spentThisMonth
                       = SpentLessRollover(categoryProgressData[i])
            /\ budgetSnapshotOf(budgetEntries, now).spentThisMonth
                   = SumOver(categoryProgressData, SpentLessRollover, 1)

\* June of the current year is displayed, a category carries a rollover
\* into it and has spending in it, and another category has spending
\* without rollover.
C22_Witness ==
    /\ activeNavId = "budget"
    /\ year = getUTCFullYear(Today)
    /\ selectedPeriod = PeriodMonth(getUTCMonth(Today))
    /\ \E i, j \in 1..Len(categoryProgressData) :
           /\ categoryProgressData[i].rollover > 0
           /\ categoryBudgetInfo[categoryProgressData[i].id].spentThisMonth > 0
           /\ categoryProgressData[j].rollover = 0
           /\ categoryBudgetInfo[categoryProgressData[j].id].spentThisMonth > 0
    /\ budgetSnapshot.spentThisMonth > 0

\* C23: an entry saved with "Recurring monthly (for this year)" checked is
\* counted in the months of the year of its date only, from its start month
\* on, and in no bucket of any other year.
C23_RecurrenceWithinItsYear ==
    activeNavId = "budget" =>
    \A i \in 1..Len(budgetEntries) :
        LET entry == budgetEntries[i]
            without == monthlyBreakdownOf(WithoutEntry(budgetEntries, i), year)
        IN  (entry.isRecurring /\ entry.date # InvalidDate) =>
                \A m \in Months :
                    Contribution(monthlyBreakdown, without, m, entry.categoryId)
                        = IF /\ getUTCFullYear(entry.date) = year
                             /\ getUTCMonth(entry.date) <= m
                          THEN entry.amount
                          ELSE 0

\* The entry with this id is in the filter result of the displayed period.
IsListed(id) == \E j \in 1..Len(entriesForPeriod) : entriesForPeriod[j].id = id

\* C24: for every entry with a valid date and every displayed year Y and
\* month M, the entry is in the month-view filter result if and only if its
\* amount is counted in bucket M of the breakdown of Y, and it is in the
\* year-view filter result if and only if its amount is counted in at least
\* one bucket of the breakdown of Y; a bucket counts the amount whole or not
\* at all.
C24_FilterMatchesBreakdown ==
    \A i \in 1..Len(budgetEntries) :
        LET entry == budgetEntries[i]
            without == monthlyBreakdownOf(WithoutEntry(budgetEntries, i), year)
            Counted(m) ==
                Contribution(monthlyBreakdown, without, m, entry.categoryId)
        IN  entry.date # InvalidDate =>
                /\ \A m \in Months : Counted(m) \in {0, entry.amount}
                /\ IF IsMonthView
                   THEN IsListed(entry.id)
                            <=> Counted(selectedPeriod.index) = entry.amount
                   ELSE IsListed(entry.id)
                            <=> \E m \in Months : Counted(m) = entry.amount

\* A month is displayed in which a one-time entry of that month is listed
\* and counted and a one-time entry of a later month of the year is
\* neither.
C24_Witness ==
    /\ activeNavId = "budget"
    /\ IsMonthView
    /\ \E i, j \in 1..Len(budgetEntries) :
           /\ ~budgetEntries[i].isRecurring
           /\ getUTCFullYear(budgetEntries[i].date) = year
           /\ getUTCMonth(budgetEntries[i].date) > selectedPeriod.index
           /\ ~IsListed(budgetEntries[i].id)
           /\ ~budgetEntries[j].isRecurring
           /\ budgetEntries[j].date # InvalidDate
           /\ IsListed(budgetEntries[j].id)

\* The sum for j = k..m-1 of (raw[j] - b).
RECURSIVE SuffixSum(_, _, _, _)
SuffixSum(raw, b, k, m) ==
    IF k >= m THEN 0 ELSE (raw[k] - b) + SuffixSum(raw, b, k + 1, m)

\* max(0, max over k in 0..m-1 of the sum for j = k..m-1 of (raw[j] - b)).
ClosedFormRollover(raw, b, m) ==
    LET sums == {SuffixSum(raw, b, k, m) : k \in 0..(m - 1)}
    IN  IF sums = {}
        THEN 0
        ELSE Max(0, CHOOSE x \in sums : \A y \in sums : y <= x)

\* C25: in month view M the rollover reported for every category, of
\* monthly budget B and raw monthly spends raw, is
\* max(0, max over k in 0..M-1 of the sum for j = k..M-1 of (raw[j] - B));
\* and over every month below M in which the raw spend is above B, the
\* rollover grows by raw - B.
C25_RolloverClosedForm ==
    IsMonthView =>
        \A i \in 1..Len(categories) :
            LET raw == RawOf(monthlyBreakdown, categories[i].id)
                B == categories[i].budget
                M == selectedPeriod.index
                Entering(m) ==
                    categoryProgressDataOf(monthlyBreakdown,
                                           PeriodMonth(m))[i].rollover
            IN  /\ categoryProgressData[i].rollover = ClosedFormRollover(raw, B, M)
                /\ \A m \in 0..(M - 1) :
                       raw[m] > B => Entering(m + 1) = Entering(m) + raw[m] - B

\* The rollover entering the displayed month is larger than the raw overage
\* of the month before, which was itself above budget.
C25_Witness ==
    /\ activeNavId = "budget"
    /\ IsMonthView
    /\ selectedPeriod.index > 1
    /\ \E i \in 1..Len(categories) :
           LET overage == monthlyBreakdown[selectedPeriod.index - 1]
                              [categories[i].id] - categories[i].budget
           IN  /\ overage > 0
               /\ categoryProgressData[i].rollover > overage

\* C26: in year view the header total spent is the sum of CategoryProgress
\* spent over the categories and the sum of the pie slice values; in month
\* view M it is the sum of the raw bucket M over the categories, which is
\* the sum of CategoryProgress spent less the sum of the reported rollovers;
\* the header's remaining is the total budget less that total, rollover
\* left out.
C26_HeaderTotals ==
    LET SpentOf(p) == p.spent
        RolloverOf(p) == p.rollover
        BudgetOf(p) == p.budget
        ValueOf(slice) == slice.value
        RawOfCategory(cat) == monthlyBreakdown[selectedPeriod.index][cat.id]
        progressSpent == SumOver(categoryProgressData, SpentOf, 1)
        progressRollover == SumOver(categoryProgressData, RolloverOf, 1)
    IN  /\ IF IsMonthView
           THEN /\ totalSpent = progressSpent - progressRollover
                /\ totalSpent = SumOver(categories, RawOfCategory, 1)
           ELSE /\ totalSpent = progressSpent
                /\ totalSpent = SumOver(categorySpendingDataForChart, ValueOf, 1)
        /\ remaining = SumOver(categoryProgressData, BudgetOf, 1)
                           - (progressSpent - progressRollover)

\* The header of a month that a category enters with a rollover and in
\* which there is spending.
C26_Witness ==
    /\ activeNavId = "budget"
    /\ IsMonthView
    /\ totalSpent > 0
    /\ \E i \in 1..Len(categoryProgressData) :
           categoryProgressData[i].rollover > 0

\* C27: with the clock in the displayed month M of year Y, the wishlist's
\* spentThisYear of every category is the sum of the category's 12 buckets
\* of the breakdown of Y and its spentThisMonth is the category's bucket M;
\* the totals of the wishlist overview are the sums of those figures over
\* the categories; and the home dashboard's spentThisMonth is the sum of
\* bucket M over the categories.
C27_RawFormulasAgree ==
    (activeNavId = "budget" /\ IsMonthView) =>
        LET now == NowInDisplayedMonth
            M == selectedPeriod.index
            info == categoryBudgetInfoOf(budgetEntries, now)
            overview == budgetOverviewOf(budgetEntries, now)
            snapshot == budgetSnapshotOf(budgetEntries, now)
            YearOf(cat) == info[cat.id].spentThisYear
            MonthOf(cat) == info[cat.id].spentThisMonth
            BucketOf(cat) == monthlyBreakdown[M][cat.id]
        IN  /\ \A c \in CategoryIds :
                   /\ info[c].spentThisYear = YearlySum(monthlyBreakdown, c)
                   /\ info[c].spentThisMonth = monthlyBreakdown[M][c]
            /\ overview.totalYearlySpent = SumOver(categories, YearOf, 1)
            /\ overview.totalMonthlySpent = SumOver(categories, MonthOf, 1)
            /\ snapshot.spentThisMonth = SumOver(categories, BucketOf, 1)

\* The current month of the current year is displayed; a category has
\* spending in the month and more in the year, and another category has
\* spending in the month too.
C27_Witness ==
    /\ activeNavId = "budget"
    /\ year = getUTCFullYear(Today)
    /\ selectedPeriod = PeriodMonth(getUTCMonth(Today))
    /\ \E c \in CategoryIds :
           /\ categoryBudgetInfo[c].spentThisMonth > 0
           /\ categoryBudgetInfo[c].spentThisYear
                  > categoryBudgetInfo[c].spentThisMonth
           /\ budgetOverview.totalMonthlySpent
                  > categoryBudgetInfo[c].spentThisMonth
    /\ budgetSnapshot.spentThisMonth = budgetOverview.totalMonthlySpent

C29_YearChangeResetsPeriod ==
    [][/\ year' # year => selectedPeriod' = PeriodYear
       /\ SelectPeriod => year' = year
       /\ (IsMonthView /\ selectedPeriod' = selectedPeriod) => year' = year]_vars

\* The budget view shows the whole of a year other than the current one,
\* with entries in the collection.
C29_Witness ==
    /\ activeNavId = "budget"
    /\ year # getUTCFullYear(Today)
    /\ selectedPeriod = PeriodYear
    /\ ~modalState.isOpen
    /\ budgetEntries # << >>

\* C30: an entry whose date is an Invalid Date, recurring or not, adds 0 to
\* every bucket of the breakdown of every displayed year, is in the filter
\* result of no year and no month, and leaves every aggregate (breakdown,
\* category progress, header total, listed entries) as it is without the
\* entry, so that the other entries count as they would alone.
C30_InvalidDatesAreInert ==
    \A i \in 1..Len(budgetEntries) :
        budgetEntries[i].date = InvalidDate =>
            LET others == WithoutEntry(budgetEntries, i)
                without == monthlyBreakdownOf(others, year)
            IN  /\ \A m \in Months : \A c \in CategoryIds :
                       Contribution(monthlyBreakdown, without, m, c) = 0
                /\ ~IsListed(budgetEntries[i].id)
                /\ entriesForPeriod = entriesForPeriodOf(others, year, selectedPeriod)
                /\ categoryProgressData
                       = categoryProgressDataOf(without, selectedPeriod)
                /\ totalSpent = totalSpentOf(without, selectedPeriod)

\* A month is displayed with a recurring entry of an Invalid Date in the
\* collection, next to an entry that is listed and counted.
C30_Witness ==
    /\ activeNavId = "budget"
    /\ IsMonthView
    /\ totalSpent > 0
    /\ \E i, j \in 1..Len(budgetEntries) :
           /\ budgetEntries[i].date = InvalidDate
           /\ budgetEntries[i].isRecurring
           /\ budgetEntries[j].date # InvalidDate
           /\ IsListed(budgetEntries[j].id)
====
